---- MODULE Spec2Model ----
(***************************************************************************)
(* A model of hcnproxyctrl: the proxy package (AddPolicy, ListPolicies,    *)
(* ClearPolicies, GetEndpointFromContainer) and the cri package            *)
(* (ListContainers), with the Host Networking Service (HNS) and the CRI    *)
(* runtime as their environment.                                           *)
(*                                                                         *)
(* A Go string is a sequence of units: a unit is one valid rune (written   *)
(* as a one-character string, or ReplacementRune for U+FFFD) or one byte   *)
(* that is not valid UTF-8 (BadByte).  An error value is a TLA+ string,    *)
(* Nil for the nil error.                                                  *)
(***************************************************************************)
EXTENDS Integers, Sequences, FiniteSets, TLC

VARIABLES
    hns,    \* the control plane: endpoint id -> the endpoint's policy list
    last,   \* what the last call was given, returned and issued
    inp,    \* the arguments drawn for the single-call specifications
    cri,    \* package cri's variables RuntimeEndpoint and Timeout
    inv     \* the ListContainers invocations in flight, each with its position

vars == <<hns, last, inp, cri, inv>>

----------------------------------------------------------------------------
\* Bounds of the model.

MaxPortLen == 2      \* ProxyPort strings of up to this many characters
MaxPolicies == 2     \* policies one endpoint holds before HNS refuses an add
MaxContainers == 2   \* containers the runtime lists

----------------------------------------------------------------------------
\* Values.

Nil == "nil"
L4WFPPROXY == "L4WFPPROXY"
ErrMissingPort == "policy missing proxy port"
ErrZeroPort == "policy has invalid proxy port value: 0"
ErrContainerNotFound == "could not find the container"
ErrNoEndpoint == "could not find an endpoint attached to that container"
ErrEndpointNotFound == "hcn: endpoint not found"
ErrNamespaceNotFound == "hcn: namespace not found"
ErrHnsModify == "hcn: ModifyEndpointSettings failed"
ErrConnect == "failed to connect"
ErrListContainers == "rpc: ListContainers failed"
ErrContainerStatus == "rpc: ContainerStatus failed"
PanicNotL4 == "panic: not an L4 proxy policy"
PanicTypeAssertion == "panic: interface conversion"

BadByte == "\\xff"             \* a byte that is not valid UTF-8
ReplacementRune == "U+FFFD"    \* the rune U+FFFD, valid UTF-8

\* All sequences over S of length at most n.
SeqsUpTo(S, n) == UNION {[1..k -> S] : k \in 0..n}

ValidUTF8(s) == \A i \in 1..Len(s) : s[i] # BadByte

----------------------------------------------------------------------------
\* strconv.Atoi, as validatePolicy uses it: an optional sign, then decimal
\* digits; anything else is a syntax error with value 0.  (A value out of
\* int's range is returned clamped and nonzero; it needs 19 digits and is
\* beyond MaxPortLen.)

DigitVal == [c \in {"0", "1", "2", "3", "4", "5", "6", "7", "8", "9"} |->
    CASE c = "0" -> 0 [] c = "1" -> 1 [] c = "2" -> 2 [] c = "3" -> 3
      [] c = "4" -> 4 [] c = "5" -> 5 [] c = "6" -> 6 [] c = "7" -> 7
      [] c = "8" -> 8 [] c = "9" -> 9]

RECURSIVE AtoiDigits(_, _)
AtoiDigits(s, n) ==
    IF s = <<>> THEN [n |-> n, ok |-> TRUE]
    ELSE IF Head(s) \notin DOMAIN DigitVal THEN [n |-> 0, ok |-> FALSE]
    ELSE AtoiDigits(Tail(s), n * 10 + DigitVal[Head(s)])

Atoi(s) ==
    IF s = <<>> THEN [n |-> 0, ok |-> FALSE]
    ELSE LET body == IF Head(s) \in {"-", "+"} THEN Tail(s) ELSE s
             r == AtoiDigits(body, 0)
         IN  IF body = <<>> \/ ~r.ok THEN [n |-> 0, ok |-> FALSE]
             ELSE [n |-> IF Head(s) = "-" THEN -r.n ELSE r.n, ok |-> TRUE]

\* A plausible slip: only the length check, no check of the value.
validatePolicyLengthOnly(policy) ==
    IF Len(policy.ProxyPort) = 0 THEN ErrMissingPort ELSE Nil

\* validatePolicy: nil iff the policy is valid; Atoi's error is dropped.
validatePolicy(policy) ==
    IF Len(policy.ProxyPort) = 0 THEN ErrMissingPort
    ELSE LET port == Atoi(policy.ProxyPort).n
         IN  IF port = 0 THEN ErrZeroPort ELSE Nil

----------------------------------------------------------------------------
\* encoding/json on hcn.L4WfpProxyPolicySetting {Port, FilterTuple{Protocols,
\* LocalAddresses, RemoteAddresses, LocalPorts, RemotePorts, Priority},
\* UserSID}, every field `omitempty`.  A JSON object is a function from the
\* paths present to values [t, s, n]: a string (its text as tokens) or a
\* number.

JStr(tokens) == [t |-> "string", s |-> tokens, n |-> 0]
JNum(n) == [t |-> "number", s |-> <<>>, n |-> n]

\* One unit as json.Marshal writes it: invalid UTF-8 becomes the escape of
\* U+FFFD, and <, >, & are written as \u escapes.
EncodeUnit(u) ==
    CASE u = BadByte -> "\\ufffd"
      [] u = "<" -> "\\u003c"
      [] u = ">" -> "\\u003e"
      [] u = "&" -> "\\u0026"
      [] OTHER -> u

\* One token of a JSON string as json.Unmarshal reads it.
DecodeToken(t) ==
    CASE t = "\\ufffd" -> ReplacementRune
      [] t = "\\u003c" -> "<"
      [] t = "\\u003e" -> ">"
      [] t = "\\u0026" -> "&"
      [] OTHER -> t

MarshalString(s) == [i \in 1..Len(s) |-> EncodeUnit(s[i])]
UnmarshalString(ts) == [i \in 1..Len(ts) |-> DecodeToken(ts[i])]

StringPaths == {"Port", "UserSID", "FilterTuple.Protocols",
                "FilterTuple.LocalAddresses", "FilterTuple.RemoteAddresses",
                "FilterTuple.LocalPorts", "FilterTuple.RemotePorts"}
PriorityPath == "FilterTuple.Priority"

\* The field of a policySetting at a path.
SettingField(ps, path) ==
    CASE path = "Port" -> ps.Port
      [] path = "UserSID" -> ps.UserSID
      [] path = "FilterTuple.Protocols" -> ps.FilterTuple.Protocols
      [] path = "FilterTuple.LocalAddresses" -> ps.FilterTuple.LocalAddresses
      [] path = "FilterTuple.RemoteAddresses" -> ps.FilterTuple.RemoteAddresses
      [] path = "FilterTuple.LocalPorts" -> ps.FilterTuple.LocalPorts
      [] path = "FilterTuple.RemotePorts" -> ps.FilterTuple.RemotePorts
      [] path = PriorityPath -> ps.FilterTuple.Priority

\* json.Marshal(policySetting): empty strings and a zero Priority are left out.
MarshalSetting(ps) ==
    LET present == {p \in StringPaths : Len(SettingField(ps, p)) > 0}
                   \cup (IF ps.FilterTuple.Priority # 0 THEN {PriorityPath} ELSE {})
    IN  [p \in present |->
            IF p = PriorityPath THEN JNum(ps.FilterTuple.Priority)
            ELSE JStr(MarshalString(SettingField(ps, p)))]

\* json.Unmarshal into a zero hcn.L4WfpProxyPolicySetting, its error dropped:
\* a path that is absent, or whose value has the wrong JSON type (or a number
\* that does not fit uint16), leaves the field at its zero value.
UnmarshalStringField(json, path) ==
    IF path \in DOMAIN json /\ json[path].t = "string"
    THEN UnmarshalString(json[path].s) ELSE <<>>

UnmarshalSetting(json) ==
    [Port |-> UnmarshalStringField(json, "Port"),
     UserSID |-> UnmarshalStringField(json, "UserSID"),
     FilterTuple |->
        [Protocols |-> UnmarshalStringField(json, "FilterTuple.Protocols"),
         LocalAddresses |-> UnmarshalStringField(json, "FilterTuple.LocalAddresses"),
         RemoteAddresses |-> UnmarshalStringField(json, "FilterTuple.RemoteAddresses"),
         LocalPorts |-> UnmarshalStringField(json, "FilterTuple.LocalPorts"),
         RemotePorts |-> UnmarshalStringField(json, "FilterTuple.RemotePorts"),
         Priority |->
            IF PriorityPath \in DOMAIN json /\ json[PriorityPath].t = "number"
               /\ json[PriorityPath].n \in 0..65535
            THEN json[PriorityPath].n ELSE 0]]

----------------------------------------------------------------------------
\* The Policy record of the API, and its two mappings.

ZeroPolicy ==
    [ProxyPort |-> <<>>, UserSID |-> <<>>, LocalAddresses |-> <<>>,
     RemoteAddresses |-> <<>>, LocalPorts |-> <<>>, RemotePorts |-> <<>>,
     Priority |-> 0, Protocol |-> <<>>]

\* AddPolicy: "TCP is the default protocol and is the only supported one".
NormalizeProtocol(policy) == [policy EXCEPT !.Protocol = <<"6">>]

\* A plausible slip: the two port filters exchanged.
ToPolicySettingSwapped(policy) ==
    [Port |-> policy.ProxyPort,
     UserSID |-> policy.UserSID,
     FilterTuple |->
        [LocalAddresses |-> policy.LocalAddresses,
         RemoteAddresses |-> policy.RemoteAddresses,
         LocalPorts |-> policy.RemotePorts,
         RemotePorts |-> policy.LocalPorts,
         Protocols |-> policy.Protocol,
         Priority |-> policy.Priority]]

\* AddPolicy: the hcn.L4WfpProxyPolicySetting built from the policy.
ToPolicySetting(policy) ==
    [Port |-> policy.ProxyPort,
     UserSID |-> policy.UserSID,
     FilterTuple |->
        [LocalAddresses |-> policy.LocalAddresses,
         RemoteAddresses |-> policy.RemoteAddresses,
         LocalPorts |-> policy.LocalPorts,
         RemotePorts |-> policy.RemotePorts,
         Protocols |-> policy.Protocol,
         Priority |-> policy.Priority]]

\* AddPolicy: the hcn.EndpointPolicy sent for a (validated) policy.
ToEndpointPolicy(policy) ==
    [Type |-> L4WFPPROXY,
     Settings |-> MarshalSetting(ToPolicySetting(NormalizeProtocol(policy)))]

\* hcnPolicyToAPIPolicy: panics on a policy of another type; Unmarshal's
\* error is dropped.
hcnPolicyToAPIPolicy(hcnPolicy) ==
    IF hcnPolicy.Type # L4WFPPROXY
    THEN [panic |-> TRUE, policy |-> ZeroPolicy]
    ELSE LET hcnPolicySetting == UnmarshalSetting(hcnPolicy.Settings)
         IN  [panic |-> FALSE,
              policy |->
                [ProxyPort |-> hcnPolicySetting.Port,
                 UserSID |-> hcnPolicySetting.UserSID,
                 LocalAddresses |-> hcnPolicySetting.FilterTuple.LocalAddresses,
                 RemoteAddresses |-> hcnPolicySetting.FilterTuple.RemoteAddresses,
                 LocalPorts |-> hcnPolicySetting.FilterTuple.LocalPorts,
                 RemotePorts |-> hcnPolicySetting.FilterTuple.RemotePorts,
                 Priority |-> hcnPolicySetting.FilterTuple.Priority,
                 Protocol |-> hcnPolicySetting.FilterTuple.Protocols]]

----------------------------------------------------------------------------
\* The control plane (HNS), as the calls of the hcn package see it.  A call
\* record says which call was issued, on what, and with which policies.

HnsCall(fn, id, requestType, policies) ==
    [fn |-> fn, id |-> id, requestType |-> requestType, policies |-> policies]

\* hcn.GetEndpointByID: the endpoint, or an error when there is none.
GetEndpointByID(h, id) ==
    IF id \in DOMAIN h
    THEN [err |-> Nil, Id |-> id, Policies |-> h[id]]
    ELSE [err |-> ErrEndpointNotFound, Id |-> id, Policies |-> <<>>]

\* hcn.ModifyEndpointSettings: an add appends the request's policies, a remove
\* drops every policy of the endpoint that the request names; a call that
\* fails (remoteOk false, an unknown endpoint, or an add past MaxPolicies)
\* changes nothing.
ModifyEndpointSettings(h, id, requestType, policies, remoteOk) ==
    IF id \notin DOMAIN h \/ ~remoteOk
       \/ (requestType = "Add" /\ Len(h[id]) + Len(policies) > MaxPolicies)
    THEN [err |-> ErrHnsModify, hns |-> h]
    ELSE IF requestType = "Add"
    THEN [err |-> Nil, hns |-> [h EXCEPT ![id] = h[id] \o policies]]
    ELSE [err |-> Nil,
          hns |-> [h EXCEPT ![id] =
                     SelectSeq(h[id], LAMBDA p : \A i \in 1..Len(policies) : policies[i] # p)]]

----------------------------------------------------------------------------
\* AddPolicy.

\* A plausible slip: the add is issued again when it fails.
AddApplyRetry(h, id, request, remoteOk) ==
    LET endpoint == GetEndpointByID(h, id)
        lookup == HnsCall("GetEndpointByID", id, "", <<>>)
        apply == HnsCall("ModifyEndpointSettings", id, "Add", request)
    IN  IF endpoint.err # Nil
        THEN [err |-> endpoint.err, calls |-> <<lookup>>, hns |-> h]
        ELSE LET r == ModifyEndpointSettings(h, endpoint.Id, "Add", request, remoteOk)
             IN  IF r.err # Nil
                 THEN [err |-> r.err, calls |-> <<lookup, apply, apply>>, hns |-> r.hns]
                 ELSE [err |-> r.err, calls |-> <<lookup, apply>>, hns |-> r.hns]

\* AddPolicy after the request is built: look the endpoint up, and apply the
\* request to it (endpoint.ApplyPolicy is one ModifyEndpointSettings call).
AddApply(h, id, request, remoteOk) ==
    LET endpoint == GetEndpointByID(h, id)
        lookup == HnsCall("GetEndpointByID", id, "", <<>>)
        apply == HnsCall("ModifyEndpointSettings", id, "Add", request)
    IN  IF endpoint.err # Nil
        THEN [err |-> endpoint.err, calls |-> <<lookup>>, hns |-> h]
        ELSE LET r == ModifyEndpointSettings(h, endpoint.Id, "Add", request, remoteOk)
             IN  [err |-> r.err, calls |-> <<lookup, apply>>, hns |-> r.hns]

\* AddPolicy(hnsEndpointID, policy) on control plane h; remoteOk is whether
\* HNS accepts the add.  json.Marshal of the setting (strings and a uint16)
\* cannot fail.
AddPolicyRun(h, id, policy, remoteOk) ==
    LET verr == validatePolicy(policy)
    IN  IF verr # Nil
        THEN [err |-> verr, calls |-> <<>>, hns |-> h]
        ELSE AddApply(h, id, <<ToEndpointPolicy(policy)>>, remoteOk)

----------------------------------------------------------------------------
\* listPolicies, ListPolicies, ClearPolicies.

\* A plausible slip: no filter on the type.
IsProxyPolicyAny(policy) == TRUE

\* listPolicies: the test that keeps a policy.
IsProxyPolicy(policy) == policy.Type = L4WFPPROXY

RECURSIVE Reverse(_)
Reverse(q) == IF q = <<>> THEN <<>> ELSE Append(Reverse(Tail(q)), Head(q))

\* A plausible slip: the kept policies are stacked, the last one first.
listPoliciesReversed(h, id) ==
    LET endpoint == GetEndpointByID(h, id)
        lookup == HnsCall("GetEndpointByID", id, "", <<>>)
    IN  IF endpoint.err # Nil
        THEN [err |-> endpoint.err, policies |-> <<>>, calls |-> <<lookup>>]
        ELSE [err |-> Nil,
              policies |-> Reverse(SelectSeq(endpoint.Policies, IsProxyPolicy)),
              calls |-> <<lookup>>]

\* listPolicies: the endpoint's policies of the proxy type, in its order.
listPolicies(h, id) ==
    LET endpoint == GetEndpointByID(h, id)
        lookup == HnsCall("GetEndpointByID", id, "", <<>>)
    IN  IF endpoint.err # Nil
        THEN [err |-> endpoint.err, policies |-> <<>>, calls |-> <<lookup>>]
        ELSE [err |-> Nil, policies |-> SelectSeq(endpoint.Policies, IsProxyPolicy),
              calls |-> <<lookup>>]

\* A plausible slip: an endpoint without proxy policies reported as an error.
ListPoliciesErrOnEmpty(h, id) ==
    LET l == listPolicies(h, id)
        conv == [i \in 1..Len(l.policies) |-> hcnPolicyToAPIPolicy(l.policies[i])]
    IN  IF l.err # Nil \/ l.policies = <<>>
        THEN [outcome |-> "error",
              err |-> IF l.err # Nil THEN l.err ELSE "no proxy policies",
              policies |-> <<>>, calls |-> l.calls]
        ELSE IF \E i \in 1..Len(conv) : conv[i].panic
        THEN [outcome |-> "panic", err |-> PanicNotL4, policies |-> <<>>, calls |-> l.calls]
        ELSE [outcome |-> "ok", err |-> Nil,
              policies |-> [i \in 1..Len(conv) |-> conv[i].policy], calls |-> l.calls]

\* ListPolicies: each listed policy converted; a panic of the conversion
\* ends the call.
ListPoliciesRun(h, id) ==
    LET l == listPolicies(h, id)
        conv == [i \in 1..Len(l.policies) |-> hcnPolicyToAPIPolicy(l.policies[i])]
    IN  IF l.err # Nil
        THEN [outcome |-> "error", err |-> l.err, policies |-> <<>>, calls |-> l.calls]
        ELSE IF \E i \in 1..Len(conv) : conv[i].panic
        THEN [outcome |-> "panic", err |-> PanicNotL4, policies |-> <<>>, calls |-> l.calls]
        ELSE [outcome |-> "ok", err |-> Nil,
              policies |-> [i \in 1..Len(conv) |-> conv[i].policy], calls |-> l.calls]

\* The documented count: zero when an error occurred.
NumRemovedZeroOnError(policies, err) == IF err # Nil THEN 0 ELSE Len(policies)

\* ClearPolicies: the count returned beside ModifyEndpointSettings' error.
NumRemoved(policies, err) == Len(policies)

\* ClearPolicies(hnsEndpointID); remoteOk is whether HNS accepts the remove.
\* json.Marshal of the request (policies as HNS returned them) cannot fail.
ClearPoliciesRun(h, id, remoteOk) ==
    LET l == listPolicies(h, id)
        r == ModifyEndpointSettings(h, id, "Remove", l.policies, remoteOk)
        remove == HnsCall("ModifyEndpointSettings", id, "Remove", l.policies)
    IN  IF l.err # Nil
        THEN [numRemoved |-> 0, err |-> l.err, calls |-> l.calls, hns |-> h]
        ELSE [numRemoved |-> NumRemoved(l.policies, r.err), err |-> r.err,
              calls |-> Append(l.calls, remove), hns |-> r.hns]

----------------------------------------------------------------------------
\* The CRI runtime, as cri.ListContainers sees it.  A runtime is whether the
\* dial succeeds, whether the ListContainers request succeeds, and the
\* containers it lists; a container's status is whether the ContainerStatus
\* request succeeds and the shape of its info JSON: how many of the nested
\* objects runtimeSpec, windows, network are there (objs), what kind of value
\* networkNamespace is (nsKind), and its text (ns).

DefaultContainerdCriParameters ==
    [RuntimeEndpoint |-> "tcp://127.0.0.1:2376", Timeout |-> 2]

CriEvent(ev, arg) == [ev |-> ev, arg |-> arg]

\* The four type assertions on the info JSON: each panics when its value is
\* missing or of another type.
ExtractNamespace(status) ==
    IF status.objs < 3 \/ status.nsKind # "string"
    THEN [panic |-> TRUE, ns |-> ""]
    ELSE [panic |-> FALSE, ns |-> status.ns]

\* A plausible slip: a container whose status request fails is passed over.
RECURSIVE ListLoopSkipFailed(_, _, _)
ListLoopSkipFailed(rest, foundContainers, events) ==
    IF rest = <<>>
    THEN [outcome |-> "ok", err |-> Nil, containers |-> foundContainers,
          events |-> events]
    ELSE LET container == Head(rest)
             asked == Append(events, CriEvent("ContainerStatus", container.Id))
             x == ExtractNamespace(container.status)
         IN  IF ~container.status.rpcOk
             THEN ListLoopSkipFailed(Tail(rest), foundContainers, asked)
             ELSE IF x.panic
             THEN [outcome |-> "panic", err |-> PanicTypeAssertion,
                   containers |-> <<>>, events |-> asked]
             ELSE ListLoopSkipFailed(Tail(rest),
                           Append(foundContainers,
                                  [ContainerId |-> container.Id, NamespaceId |-> x.ns]),
                           asked)

\* ListContainers' loop over the listed containers.
RECURSIVE ListLoop(_, _, _)
ListLoop(rest, foundContainers, events) ==
    IF rest = <<>>
    THEN [outcome |-> "ok", err |-> Nil, containers |-> foundContainers,
          events |-> events]
    ELSE LET container == Head(rest)
             asked == Append(events, CriEvent("ContainerStatus", container.Id))
             x == ExtractNamespace(container.status)
         IN  IF ~container.status.rpcOk
             THEN [outcome |-> "error", err |-> ErrContainerStatus,
                   containers |-> <<>>, events |-> asked]
             ELSE IF x.panic
             THEN [outcome |-> "panic", err |-> PanicTypeAssertion,
                   containers |-> <<>>, events |-> asked]
             ELSE ListLoop(Tail(rest),
                           Append(foundContainers,
                                  [ContainerId |-> container.Id, NamespaceId |-> x.ns]),
                           asked)

\* A Go string variable is two words, the data pointer and the length, each
\* written and read on its own; a header whose words come from two strings
\* is torn.
StringHeader(str) == [data |-> str, len |-> str]
Torn == "<torn>"
HeaderString(h) == IF h.data = h.len THEN h.data ELSE Torn

\* Package cri's variables before any call: Go's zero values.
CriVarsInit == [RuntimeEndpoint |-> StringHeader(""), Timeout |-> 0]

\* A plausible slip: the connection closed before each return statement
\* instead of by a deferred call, so that a panic leaves it open.
ListContainersRunCloseOnReturn(criParameters, rt) ==
    LET globals == [RuntimeEndpoint |-> StringHeader(criParameters.RuntimeEndpoint),
                    Timeout |-> criParameters.Timeout]
        dial == CriEvent("dial", HeaderString(globals.RuntimeEndpoint))
        list == CriEvent("ListContainers", "")
        close == CriEvent("close", HeaderString(globals.RuntimeEndpoint))
    IN  IF ~rt.connectOk
        THEN [outcome |-> "error", err |-> ErrConnect, containers |-> <<>>,
              events |-> <<dial>>, globals |-> globals]
        ELSE IF ~rt.listOk
        THEN [outcome |-> "error", err |-> ErrListContainers, containers |-> <<>>,
              events |-> <<dial, list, close>>, globals |-> globals]
        ELSE LET r == ListLoop(rt.containers, <<>>, <<dial, list>>)
             IN  [outcome |-> r.outcome, err |-> r.err, containers |-> r.containers,
                  events |-> IF r.outcome = "panic" THEN r.events
                             ELSE Append(r.events, close),
                  globals |-> globals]

\* cri.ListContainers(criParameters) against runtime rt.  The parameters are
\* stored in the package's variables, from which getRuntimeClientConnection
\* reads the address to dial.  The deferred closeConnection runs on every
\* return after a successful dial.
ListContainersRun(criParameters, rt) ==
    LET globals == [RuntimeEndpoint |-> StringHeader(criParameters.RuntimeEndpoint),
                    Timeout |-> criParameters.Timeout]
        dial == CriEvent("dial", HeaderString(globals.RuntimeEndpoint))
        list == CriEvent("ListContainers", "")
        close == CriEvent("close", HeaderString(globals.RuntimeEndpoint))
    IN  IF ~rt.connectOk
        THEN [outcome |-> "error", err |-> ErrConnect, containers |-> <<>>,
              events |-> <<dial>>, globals |-> globals]
        ELSE IF ~rt.listOk
        THEN [outcome |-> "error", err |-> ErrListContainers, containers |-> <<>>,
              events |-> <<dial, list, close>>, globals |-> globals]
        ELSE LET r == ListLoop(rt.containers, <<>>, <<dial, list>>)
             IN  [outcome |-> r.outcome, err |-> r.err, containers |-> r.containers,
                  events |-> Append(r.events, close), globals |-> globals]

\* The namespaces of the control plane and the endpoints attached to each.
NamespaceEndpoints ==
    [ns \in {"ns1", "ns2", "ns3"} |->
        CASE ns = "ns1" -> <<"ep1">>
          [] ns = "ns2" -> <<"ep1", "ep2">>
          [] ns = "ns3" -> <<>>]

\* hcn.GetNamespaceEndpointIds.
GetNamespaceEndpointIds(namespaceID) ==
    IF namespaceID \in DOMAIN NamespaceEndpoints
    THEN [err |-> Nil, ids |-> NamespaceEndpoints[namespaceID]]
    ELSE [err |-> ErrNamespaceNotFound, ids |-> <<>>]

\* strings.Join(ids, ","), the joined text as its pieces.
RECURSIVE Join(_)
Join(ids) ==
    IF Len(ids) <= 1 THEN ids ELSE <<Head(ids), ",">> \o Join(Tail(ids))

\* GetEndpointFromContainer's loop: the namespace of the last listed
\* container with the id, "" when there is none.
RECURSIVE FindNamespace(_, _, _)
FindNamespace(containers, containerID, namespaceID) ==
    IF containers = <<>> THEN namespaceID
    ELSE FindNamespace(Tail(containers), containerID,
                       IF Head(containers).ContainerId = containerID
                       THEN Head(containers).NamespaceId ELSE namespaceID)

\* A plausible slip: the check of the namespace id left out.
ResolveNamespaceUnchecked(namespaceID) ==
    LET call == HnsCall("GetNamespaceEndpointIds", namespaceID, "", <<>>)
        e == GetNamespaceEndpointIds(namespaceID)
    IN  IF e.err # Nil
        THEN [outcome |-> "error", err |-> e.err, id |-> <<>>, calls |-> <<call>>]
        ELSE IF Len(e.ids) = 0
        THEN [outcome |-> "error", err |-> ErrNoEndpoint, id |-> <<>>, calls |-> <<call>>]
        ELSE [outcome |-> "ok", err |-> Nil, id |-> Join(e.ids), calls |-> <<call>>]

\* GetEndpointFromContainer after the loop: from the namespace id to the
\* endpoint ids.
ResolveNamespace(namespaceID) ==
    LET call == HnsCall("GetNamespaceEndpointIds", namespaceID, "", <<>>)
        e == GetNamespaceEndpointIds(namespaceID)
    IN  IF namespaceID = ""
        THEN [outcome |-> "error", err |-> ErrContainerNotFound, id |-> <<>>,
              calls |-> <<>>]
        ELSE IF e.err # Nil
        THEN [outcome |-> "error", err |-> e.err, id |-> <<>>, calls |-> <<call>>]
        ELSE IF Len(e.ids) = 0
        THEN [outcome |-> "error", err |-> ErrNoEndpoint, id |-> <<>>, calls |-> <<call>>]
        ELSE [outcome |-> "ok", err |-> Nil, id |-> Join(e.ids), calls |-> <<call>>]

\* GetEndpointFromContainer(containerID, runtimeEndpoint) against runtime rt.
GetEndpointFromContainerRun(containerID, runtimeEndpoint, rt) ==
    LET params == IF runtimeEndpoint # ""
                  THEN [DefaultContainerdCriParameters
                            EXCEPT !.RuntimeEndpoint = runtimeEndpoint]
                  ELSE DefaultContainerdCriParameters
        l == ListContainersRun(params, rt)
        r == ResolveNamespace(FindNamespace(l.containers, containerID, ""))
    IN  IF l.outcome # "ok"
        THEN [outcome |-> l.outcome, err |-> l.err, id |-> <<>>, calls |-> <<>>,
              events |-> l.events, globals |-> l.globals]
        ELSE [outcome |-> r.outcome, err |-> r.err, id |-> r.id, calls |-> r.calls,
              events |-> l.events, globals |-> l.globals]

----------------------------------------------------------------------------
\* States and inputs.

\* Policies that other software attached: two of other types, and one of the
\* proxy type whose Port is a JSON number, which Unmarshal cannot store.
AclPolicy == [Type |-> "ACL", Settings |-> [p \in {"Action"} |-> JStr(<<"A">>)]]
NatPolicy == [Type |-> "OutBoundNAT", Settings |-> [p \in {"Port"} |-> JStr(<<"9">>)]]
ForeignProxyPolicy ==
    [Type |-> L4WFPPROXY,
     Settings |-> [p \in {"Port", "UserSID"} |->
                      IF p = "Port" THEN JNum(80) ELSE JStr(<<"S">>)]]

ControlPlane(a, b) == [e \in {"ep1", "ep2"} |-> IF e = "ep1" THEN a ELSE b]

InitialControlPlanes ==
    {ControlPlane(a, b) : a \in {<<>>, <<AclPolicy>>, <<AclPolicy, ForeignProxyPolicy>>},
                          b \in {<<>>, <<ForeignProxyPolicy, NatPolicy>>}}

\* Endpoint ids a caller passes: two endpoints of the control plane and an id
\* that names none.
EndpointArgs == {"ep1", "ep2", "ep9"}

\* Policies the callers of the control-plane operations pass.
PolicyInputs ==
    {[ZeroPolicy EXCEPT !.UserSID = <<"S">>],
     [ZeroPolicy EXCEPT !.ProxyPort = <<"0">>, !.Priority = 7],
     [ZeroPolicy EXCEPT !.ProxyPort = <<"8", "0">>, !.UserSID = <<"S">>],
     [ZeroPolicy EXCEPT !.ProxyPort = <<"8", "0">>, !.UserSID = <<"S">>,
                        !.Protocol = <<"1", "7">>],
     [ZeroPolicy EXCEPT !.ProxyPort = <<"-", "8">>, !.LocalPorts = <<"8", "0">>,
                        !.RemoteAddresses = <<"<">>, !.Priority = 7]}

\* Policies drawn for the single-call specification.
PortChars == {"0", "8", "-", "+", "x"}
GoStrings == {<<>>, <<"S", "-", "1">>, <<"<">>, <<BadByte>>, <<ReplacementRune>>}
WidePolicies ==
    [ProxyPort : SeqsUpTo(PortChars, MaxPortLen),
     UserSID : GoStrings,
     LocalAddresses : {<<>>, <<"1", ".", "2">>},
     RemoteAddresses : {<<>>, <<"&", BadByte>>},
     LocalPorts : {<<>>, <<"8", "0">>},
     RemotePorts : {<<>>, <<"4", "4", "3">>},
     Priority : {0, 7},
     Protocol : {<<>>, <<"1", "7">>}]

\* Runtimes: the statuses a container can have, and the lists of up to
\* MaxContainers containers with distinct ids.
ContainerIds == {"c1", "c2", "c3"}
ContainerArgs == ContainerIds \cup {"c9"}
Info(objs, nsKind, ns) == [rpcOk |-> TRUE, objs |-> objs, nsKind |-> nsKind, ns |-> ns]
Statuses ==
    {[rpcOk |-> FALSE, objs |-> 0, nsKind |-> "absent", ns |-> ""]}
    \cup {Info(d, "absent", "") : d \in 0..3}
    \cup {Info(3, "number", "")}
    \cup {Info(3, "string", ns) : ns \in {"", "ns1", "ns2", "ns3", "ns9"}}
ContainerLists ==
    {l \in SeqsUpTo([Id : ContainerIds, status : Statuses], MaxContainers) :
        \A i, j \in 1..Len(l) : i # j => l[i].Id # l[j].Id}
NoRuntime == [connectOk |-> FALSE, listOk |-> FALSE, containers |-> <<>>]
Runtimes ==
    {NoRuntime, [connectOk |-> TRUE, listOk |-> FALSE, containers |-> <<>>]}
    \cup {[connectOk |-> TRUE, listOk |-> TRUE, containers |-> l] : l \in ContainerLists}
RuntimeEndpointArgs == {"", "npipe:////./pipe/containerd"}

NoInput == [policy |-> ZeroPolicy]

\* The invocations of ListContainers that run side by side, and the
\* parameters a caller passes to one.
Invocations == {"A", "B"}
CriParameterArgs ==
    [RuntimeEndpoint : {DefaultContainerdCriParameters.RuntimeEndpoint,
                        "npipe:////./pipe/containerd"},
     Timeout : {DefaultContainerdCriParameters.Timeout, 5}]
Invocation(criParameters) ==
    [pc |-> "storeData", params |-> criParameters, addr |-> "", timeout |-> 0,
     conn |-> "none", left |-> 0, outcome |-> "running"]
NoInvocations == [i \in Invocations |-> Invocation(DefaultContainerdCriParameters)]

NoCall ==
    [op |-> "none", id |-> "", policy |-> ZeroPolicy, remoteOk |-> TRUE,
     runtimeEndpoint |-> "", rt |-> NoRuntime, before |-> <<>>,
     outcome |-> "ok", err |-> Nil, count |-> 0, policies |-> <<>>,
     endpoint |-> <<>>, calls |-> <<>>, events |-> <<>>]

----------------------------------------------------------------------------
\* The control-plane operations, called in any order with any arguments.

Init ==
    /\ hns \in InitialControlPlanes
    /\ last = NoCall
    /\ inp = NoInput
    /\ cri = CriVarsInit
    /\ inv = NoInvocations

AddPolicy ==
    \E id \in EndpointArgs, policy \in PolicyInputs, remoteOk \in BOOLEAN :
        LET r == AddPolicyRun(hns, id, policy, remoteOk)
        IN  /\ hns' = r.hns
            /\ last' = [NoCall EXCEPT !.op = "AddPolicy", !.id = id, !.policy = policy,
                            !.remoteOk = remoteOk, !.before = hns,
                            !.outcome = IF r.err = Nil THEN "ok" ELSE "error",
                            !.err = r.err, !.calls = r.calls]
            /\ UNCHANGED <<inp, cri, inv>>

ListPolicies ==
    \E id \in EndpointArgs :
        LET r == ListPoliciesRun(hns, id)
        IN  /\ last' = [NoCall EXCEPT !.op = "ListPolicies", !.id = id, !.before = hns,
                            !.outcome = r.outcome, !.err = r.err,
                            !.policies = r.policies, !.calls = r.calls]
            /\ UNCHANGED <<hns, inp, cri, inv>>

ClearPolicies ==
    \E id \in EndpointArgs, remoteOk \in BOOLEAN :
        LET r == ClearPoliciesRun(hns, id, remoteOk)
        IN  /\ hns' = r.hns
            /\ last' = [NoCall EXCEPT !.op = "ClearPolicies", !.id = id,
                            !.remoteOk = remoteOk, !.before = hns,
                            !.outcome = IF r.err = Nil THEN "ok" ELSE "error",
                            !.err = r.err, !.count = r.numRemoved, !.calls = r.calls]
            /\ UNCHANGED <<inp, cri, inv>>

Next == AddPolicy \/ ListPolicies \/ ClearPolicies

Spec == Init /\ [][Next]_vars

----------------------------------------------------------------------------
\* The lookup, called once with any arguments against any runtime (it keeps
\* nothing from one call to the next).

InitLookup ==
    /\ hns = ControlPlane(<<AclPolicy>>, <<>>)
    /\ last = NoCall
    /\ inp = NoInput
    /\ cri = CriVarsInit
    /\ inv = NoInvocations

GetEndpointFromContainer ==
    /\ last.op = "none"
    /\ \E containerID \in ContainerArgs, runtimeEndpoint \in RuntimeEndpointArgs,
          rt \in Runtimes :
        LET r == GetEndpointFromContainerRun(containerID, runtimeEndpoint, rt)
        IN  /\ last' = [NoCall EXCEPT !.op = "GetEndpointFromContainer",
                            !.id = containerID, !.runtimeEndpoint = runtimeEndpoint,
                            !.rt = rt, !.before = hns, !.outcome = r.outcome,
                            !.err = r.err, !.endpoint = r.id, !.calls = r.calls,
                            !.events = r.events]
            /\ cri' = r.globals
            /\ UNCHANGED <<hns, inp, inv>>

NextLookup == GetEndpointFromContainer

SpecLookup == InitLookup /\ [][NextLookup]_vars

----------------------------------------------------------------------------
\* One call on a drawn policy: AddPolicy, or the policy's way to the settings
\* schema and back.

InitSingle ==
    /\ hns = ControlPlane(<<AclPolicy>>, <<>>)
    /\ last = NoCall
    /\ inp \in [policy : WidePolicies]
    /\ cri = CriVarsInit
    /\ inv = NoInvocations

SingleAddPolicy ==
    /\ last.op = "none"
    /\ \E id \in EndpointArgs, remoteOk \in BOOLEAN :
        LET r == AddPolicyRun(hns, id, inp.policy, remoteOk)
        IN  /\ hns' = r.hns
            /\ last' = [NoCall EXCEPT !.op = "AddPolicy", !.id = id,
                            !.policy = inp.policy, !.remoteOk = remoteOk,
                            !.before = hns,
                            !.outcome = IF r.err = Nil THEN "ok" ELSE "error",
                            !.err = r.err, !.calls = r.calls]
            /\ UNCHANGED <<inp, cri, inv>>

SingleRoundTrip ==
    /\ last.op = "none"
    /\ LET sent == ToEndpointPolicy(inp.policy)
           back == hcnPolicyToAPIPolicy(sent)
       IN  last' = [NoCall EXCEPT !.op = "RoundTrip", !.policy = inp.policy,
                        !.outcome = IF back.panic THEN "panic" ELSE "ok",
                        !.err = validatePolicy(inp.policy),
                        !.policies = <<back.policy>>]
    /\ UNCHANGED <<hns, inp, cri, inv>>

NextSingle == SingleAddPolicy \/ SingleRoundTrip

SpecSingle == InitSingle /\ [][NextSingle]_vars

----------------------------------------------------------------------------
\* Two invocations of cri.ListContainers side by side (the package is a
\* library; nothing orders its callers), each step one statement.  The
\* package variables are written and read without synchronisation: a read
\* sees whatever words the writes have left there.

InitConc ==
    /\ hns = ControlPlane(<<AclPolicy>>, <<>>)
    /\ last = NoCall
    /\ inp = NoInput
    /\ cri = CriVarsInit
    /\ inv \in {[i \in Invocations |-> Invocation(f[i])] :
                    f \in [Invocations -> CriParameterArgs]}

At(i, pc) == inv[i].pc = pc
Goto(i, pc) == [inv EXCEPT ![i].pc = pc]

\* RuntimeEndpoint = criParameters.RuntimeEndpoint, the data word.
StoreEndpointData(i) ==
    /\ At(i, "storeData")
    /\ cri' = [cri EXCEPT !.RuntimeEndpoint.data = inv[i].params.RuntimeEndpoint]
    /\ inv' = Goto(i, "storeLen")
    /\ UNCHANGED <<hns, last, inp>>

\* RuntimeEndpoint = criParameters.RuntimeEndpoint, the length word.
StoreEndpointLen(i) ==
    /\ At(i, "storeLen")
    /\ cri' = [cri EXCEPT !.RuntimeEndpoint.len = inv[i].params.RuntimeEndpoint]
    /\ inv' = Goto(i, "storeTimeout")
    /\ UNCHANGED <<hns, last, inp>>

\* Timeout = criParameters.Timeout.
StoreTimeout(i) ==
    /\ At(i, "storeTimeout")
    /\ cri' = [cri EXCEPT !.Timeout = inv[i].params.Timeout]
    /\ inv' = Goto(i, "readEndpoint")
    /\ UNCHANGED <<hns, last, inp>>

\* getRuntimeClientConnection: util.GetAddressAndDialer(RuntimeEndpoint).
ReadEndpoint(i) ==
    /\ At(i, "readEndpoint")
    /\ inv' = [inv EXCEPT ![i].pc = "dial",
                          ![i].addr = HeaderString(cri.RuntimeEndpoint)]
    /\ UNCHANGED <<hns, last, inp, cri>>

\* getRuntimeClientConnection: grpc.Dial(addr, ..., grpc.WithTimeout(Timeout)).
\* The dial of an address succeeds or fails; a torn address cannot be dialed,
\* and reading it may crash.
Dial(i) ==
    /\ At(i, "dial")
    /\ \/ /\ inv[i].addr # Torn
          /\ inv' = [inv EXCEPT ![i].pc = "list", ![i].timeout = cri.Timeout,
                                ![i].conn = "open"]
       \/ \E how \in {"error", "panic"} :
             /\ how = "panic" => inv[i].addr = Torn
             /\ inv' = [inv EXCEPT ![i].pc = "done", ![i].timeout = cri.Timeout,
                                   ![i].outcome = how]
    /\ UNCHANGED <<hns, last, inp, cri>>

\* runtimeClient.ListContainers: an error, or a list of some length.
ListRequest(i) ==
    /\ At(i, "list")
    /\ \/ inv' = [inv EXCEPT ![i].pc = "close", ![i].outcome = "error"]
       \/ \E n \in 0..MaxContainers :
             inv' = [inv EXCEPT ![i].pc = "status", ![i].left = n]
    /\ UNCHANGED <<hns, last, inp, cri>>

\* One turn of the loop: the status of the next container is asked; the
\* request fails, or the status cannot be read, or the container is kept.
StatusRequest(i) ==
    /\ At(i, "status")
    /\ \/ /\ inv[i].left = 0
          /\ inv' = [inv EXCEPT ![i].pc = "close", ![i].outcome = "ok"]
       \/ /\ inv[i].left > 0
          /\ \/ inv' = [inv EXCEPT ![i].left = @ - 1]
             \/ \E how \in {"error", "panic"} :
                   inv' = [inv EXCEPT ![i].pc = "close", ![i].outcome = how]
    /\ UNCHANGED <<hns, last, inp, cri>>

\* The deferred closeConnection.
CloseConnection(i) ==
    /\ At(i, "close")
    /\ inv' = [inv EXCEPT ![i].pc = "done", ![i].conn = "closed"]
    /\ UNCHANGED <<hns, last, inp, cri>>

NextConc ==
    \E i \in Invocations :
        \/ StoreEndpointData(i)
        \/ StoreEndpointLen(i)
        \/ StoreTimeout(i)
        \/ ReadEndpoint(i)
        \/ Dial(i)
        \/ ListRequest(i)
        \/ StatusRequest(i)
        \/ CloseConnection(i)

SpecConc == InitConc /\ [][NextConc]_vars

----------------------------------------------------------------------------
\* What the claims speak of.

\* The policies of the interception type in a policy list, and the others.
ProxyOnly(q) == SelectSeq(q, LAMBDA p : p.Type = L4WFPPROXY)
OthersOnly(q) == SelectSeq(q, LAMBDA p : p.Type # L4WFPPROXY)

\* The calls of a call log that mutate an endpoint, and the lookups.
Mutations(calls) == SelectSeq(calls, LAMBDA c : c.fn = "ModifyEndpointSettings")
Lookups(calls) == SelectSeq(calls, LAMBDA c : c.fn = "GetEndpointByID")

\* The string fields of a policy are valid UTF-8.
PolicyValidUTF8(policy) ==
    /\ ValidUTF8(policy.ProxyPort) /\ ValidUTF8(policy.UserSID)
    /\ ValidUTF8(policy.LocalAddresses) /\ ValidUTF8(policy.RemoteAddresses)
    /\ ValidUTF8(policy.LocalPorts) /\ ValidUTF8(policy.RemotePorts)
    /\ ValidUTF8(policy.Protocol)

\* The runtime of the last lookup answered the dial and the list request.
Listed == last.op = "GetEndpointFromContainer" /\ last.rt.connectOk /\ last.rt.listOk
ListedAt(i) == last.rt.containers[i]
IdListed == \E i \in 1..Len(last.rt.containers) : ListedAt(i).Id = last.id

\* A status from which the namespace id can be read (possibly an empty one).
StatusReadable(status) == status.rpcOk /\ status.objs = 3 /\ status.nsKind = "string"
AllReadable == \A i \in 1..Len(last.rt.containers) : StatusReadable(ListedAt(i).status)

----------------------------------------------------------------------------
\* C1: AddPolicy with a policy whose ProxyPort is empty or "0" returns a
\* validation error and issues no control-plane call (no GetEndpointByID, no
\* add), for every endpoint id and every value of the other fields; the
\* control plane is as it was.
C1_RejectedBeforeAnyCall ==
    (last.op = "AddPolicy" /\ last.policy.ProxyPort \in {<<>>, <<"0">>}) =>
        /\ last.err \in {ErrMissingPort, ErrZeroPort}
        /\ last.calls = <<>>
        /\ hns = last.before

C1_Witness ==
    /\ last.op = "AddPolicy" /\ last.id = "ep1" /\ last.remoteOk
    /\ last.policy.ProxyPort = <<"0">> /\ last.policy.UserSID # <<>>
    /\ last.err = ErrZeroPort /\ last.calls = <<>>

\* C2 as stated: every policy that passes validation comes back from the
\* settings schema equal to itself with Protocol "6".
C2_RoundTripEveryString ==
    (last.op = "RoundTrip" /\ last.err = Nil) =>
        /\ last.outcome = "ok"
        /\ last.policies = <<[last.policy EXCEPT !.Protocol = <<"6">>]>>

\* C2, amended: every policy that passes validation and whose string fields
\* are valid UTF-8 comes back from the settings schema equal, field for
\* field, to itself with Protocol "6", whatever Protocol the caller gave.
C2_RoundTripValidUTF8 ==
    (last.op = "RoundTrip" /\ last.err = Nil /\ PolicyValidUTF8(last.policy)) =>
        /\ last.outcome = "ok"
        /\ last.policies = <<[last.policy EXCEPT !.Protocol = <<"6">>]>>

C2_Witness ==
    /\ last.op = "RoundTrip" /\ last.err = Nil
    /\ last.policy.UserSID = <<"<">> /\ last.policy.Protocol = <<"1", "7">>
    /\ last.policy.Priority = 7 /\ last.policy.LocalPorts # <<>>
    /\ last.policy.RemotePorts # <<>> /\ PolicyValidUTF8(last.policy)
    /\ last.policies = <<[last.policy EXCEPT !.Protocol = <<"6">>]>>

C4_ZeroCountOnError ==
    (last.op = "ClearPolicies" /\ last.err # Nil) => last.count = 0

\* C5 as stated: a lookup of an id the runtime does not list returns the
\* "container not found" error and makes no control-plane call.
C5_AbsentIsNotFound ==
    (Listed /\ ~IdListed) =>
        /\ last.outcome = "error" /\ last.err = ErrContainerNotFound
        /\ last.calls = <<>>

\* C5, amended: a lookup of an id the runtime does not list makes no
\* control-plane call and does not succeed; it returns the "container not
\* found" error when the status of every listed container could be fetched
\* and read.
C5_AbsentNoControlPlaneCall ==
    (Listed /\ ~IdListed) =>
        /\ last.calls = <<>>
        /\ last.outcome # "ok"
        /\ AllReadable => (last.outcome = "error" /\ last.err = ErrContainerNotFound)

C5_Witness ==
    /\ Listed /\ ~IdListed /\ AllReadable
    /\ Len(last.rt.containers) = 2
    /\ \A i \in 1..2 : ListedAt(i).status.ns \in DOMAIN NamespaceEndpoints
    /\ last.err = ErrContainerNotFound /\ last.calls = <<>>

\* C6: a lookup of a listed container whose status has no namespace id (the
\* other containers' statuses being in order) returns an error that differs
\* from "container not found".
C6_NoNamespaceDistinctError ==
    (/\ Listed
     /\ \E i \in 1..Len(last.rt.containers) :
          /\ ListedAt(i).Id = last.id
          /\ ListedAt(i).status.rpcOk
          /\ ~(StatusReadable(ListedAt(i).status) /\ ListedAt(i).status.ns # "")
          /\ \A j \in 1..Len(last.rt.containers) :
                j # i => (StatusReadable(ListedAt(j).status) /\ ListedAt(j).status.ns # ""))
    => (last.outcome = "error" /\ last.err # ErrContainerNotFound)

\* C7: ListPolicies on an existing endpoint without interception policies
\* (none at all, or only policies of other types) returns an empty result and
\* a nil error.
C7_ListEmptyIsNotAnError ==
    (/\ last.op = "ListPolicies" /\ last.id \in DOMAIN last.before
     /\ ProxyOnly(last.before[last.id]) = <<>>)
    => (last.outcome = "ok" /\ last.err = Nil /\ last.policies = <<>>)

C7_Witness ==
    /\ last.op = "ListPolicies" /\ last.id \in DOMAIN last.before
    /\ last.before[last.id] = <<AclPolicy>>
    /\ last.err = Nil /\ last.policies = <<>>

\* C8: AddPolicy returns an error when validation fails, when the endpoint
\* does not exist and when the remote add fails; when validation or the
\* lookup fails no add is issued and every endpoint's policies are as they
\* were; no step is tried twice.
C8_AddFailsWithoutTrace ==
    last.op = "AddPolicy" =>
        /\ (last.policy.ProxyPort = <<>> \/ Atoi(last.policy.ProxyPort).n = 0)
              => (last.err # Nil /\ last.calls = <<>> /\ hns = last.before)
        /\ last.id \notin DOMAIN last.before
              => (last.err # Nil /\ Mutations(last.calls) = <<>> /\ hns = last.before)
        /\ ~last.remoteOk => last.err # Nil
        /\ Len(Lookups(last.calls)) <= 1
        /\ Len(Mutations(last.calls)) <= 1

C8_Witness ==
    /\ last.op = "AddPolicy" /\ last.id \in DOMAIN last.before
    /\ ~last.remoteOk /\ last.err = ErrHnsModify
    /\ Len(last.before[last.id]) < MaxPolicies
    /\ Len(Lookups(last.calls)) = 1 /\ Len(Mutations(last.calls)) = 1
    /\ hns = last.before

\* C9: ListPolicies on an existing endpoint returns one record per policy of
\* the interception type, in the endpoint's order, and none for the others;
\* it does not panic, and the control plane is as it was.
C9_ListOnePerProxyPolicy ==
    (last.op = "ListPolicies" /\ last.id \in DOMAIN last.before) =>
        LET proxy == ProxyOnly(last.before[last.id])
        IN  /\ last.outcome = "ok" /\ last.err = Nil
            /\ Len(last.policies) = Len(proxy)
            /\ \A i \in 1..Len(proxy) :
                  last.policies[i] = hcnPolicyToAPIPolicy(proxy[i]).policy
            /\ hns = last.before

C9_Witness ==
    /\ last.op = "ListPolicies" /\ last.id \in DOMAIN last.before
    /\ Len(OthersOnly(last.before["ep1"])) + Len(OthersOnly(last.before["ep2"])) > 0
    /\ Len(last.policies) = 2
    /\ last.policies[1] # last.policies[2]

\* C10: ClearPolicies on an existing endpoint issues exactly one remove, whose
\* payload is all and only the endpoint's interception policies; when the
\* remove succeeds ListPolicies on the endpoint is then empty, its policies of
\* other types are as they were, and so is every other endpoint.
C10_ClearRemovesOnlyProxyPolicies ==
    (last.op = "ClearPolicies" /\ last.id \in DOMAIN last.before) =>
        /\ Mutations(last.calls) =
              <<HnsCall("ModifyEndpointSettings", last.id, "Remove",
                        ProxyOnly(last.before[last.id]))>>
        /\ \A e \in DOMAIN hns : e # last.id => hns[e] = last.before[e]
        /\ OthersOnly(hns[last.id]) = OthersOnly(last.before[last.id])
        /\ last.err = Nil =>
              /\ ProxyOnly(hns[last.id]) = <<>>
              /\ ListPoliciesRun(hns, last.id).outcome = "ok"
              /\ ListPoliciesRun(hns, last.id).policies = <<>>

C10_Witness ==
    /\ last.op = "ClearPolicies" /\ last.id = "ep1" /\ last.err = Nil
    /\ last.count = 1
    /\ OthersOnly(last.before["ep1"]) # <<>>
    /\ ProxyOnly(last.before["ep2"]) # <<>>
    /\ hns["ep1"] = <<AclPolicy>>
    /\ hns["ep2"] = last.before["ep2"]

----------------------------------------------------------------------------
\* The ids of the containers whose status the last lookup asked for, in the
\* order of the requests.
StatusRequests ==
    LET asked == SelectSeq(last.events, LAMBDA e : e.ev = "ContainerStatus")
    IN  [i \in 1..Len(asked) |-> asked[i].arg]

\* The place in the list of the container with the requested id.
MatchAt == CHOOSE i \in 1..Len(last.rt.containers) : ListedAt(i).Id = last.id

\* The first listed container whose status cannot be fetched and read, or
\* the length of the list when there is none.
FirstUnreadable ==
    LET bad == {i \in 1..Len(last.rt.containers) : ~StatusReadable(ListedAt(i).status)}
    IN  IF bad = {} THEN Len(last.rt.containers)
        ELSE CHOOSE i \in bad : \A j \in bad : i <= j

\* C12 as stated: no status is asked for a container listed after the one
\* with the requested id, and when the statuses up to that one can be read
\* the lookup does not fail on a status.
C12_NoStatusAfterMatch ==
    (Listed /\ IdListed) =>
        /\ \A j \in (MatchAt + 1)..Len(last.rt.containers) :
              \A k \in 1..Len(StatusRequests) : StatusRequests[k] # ListedAt(j).Id
        /\ (\A j \in 1..MatchAt : StatusReadable(ListedAt(j).status))
              => last.err \notin {ErrContainerStatus, PanicTypeAssertion}

\* C12, amended: whatever id is looked up, the status of the listed
\* containers is asked in the order of the list, up to and including the
\* first one whose status cannot be fetched or read (all of them when there
\* is none); that one makes the lookup fail, with the request's error or a
\* panic, also when it is listed after the container with the requested id.
C12_StatusForEveryListedUntilFailure ==
    Listed =>
        /\ StatusRequests = [i \in 1..FirstUnreadable |-> ListedAt(i).Id]
        /\ \A i \in 1..Len(last.rt.containers) :
              (i = FirstUnreadable /\ ~StatusReadable(ListedAt(i).status)) =>
                  /\ last.outcome = IF ListedAt(i).status.rpcOk THEN "panic" ELSE "error"
                  /\ last.err = IF ListedAt(i).status.rpcOk
                                THEN PanicTypeAssertion ELSE ErrContainerStatus
                  /\ last.calls = <<>>

C12_Witness ==
    /\ Listed /\ IdListed /\ MatchAt = 1
    /\ Len(last.rt.containers) = 2
    /\ StatusReadable(ListedAt(1).status) /\ ListedAt(1).status.ns = "ns1"
    /\ ~ListedAt(2).status.rpcOk
    /\ StatusRequests = <<ListedAt(1).Id, ListedAt(2).Id>>
    /\ last.err = ErrContainerStatus

----------------------------------------------------------------------------
\* The places in the last call's events where a connection was closed.
Closes == {i \in 1..Len(last.events) : last.events[i].ev = "close"}

\* C13: a ListContainers that opened a connection to the runtime closes it
\* exactly once, as the last thing before it ends, on every way out: a normal
\* return, an error of the list request, an error of a status request, a
\* failure to read the namespace id; one that could not connect has nothing
\* to close.
C13_ConnectionClosedOnce ==
    last.op = "GetEndpointFromContainer" =>
        /\ Len(last.events) >= 1
        /\ {i \in 1..Len(last.events) : last.events[i].ev = "dial"} = {1}
        /\ last.rt.connectOk =>
              /\ Closes = {Len(last.events)}
              /\ last.events[Len(last.events)].arg = last.events[1].arg
        /\ ~last.rt.connectOk => Closes = {}

C13_Witness ==
    /\ Listed /\ Len(last.rt.containers) = 2
    /\ StatusReadable(ListedAt(1).status)
    /\ ListedAt(2).status.rpcOk /\ ListedAt(2).status.nsKind = "absent"
    /\ last.outcome = "panic"
    /\ Len(last.events) = 5
    /\ Closes = {5}

----------------------------------------------------------------------------
\* C11: of two interleaved invocations of ListContainers, each one that
\* connects is connected to the runtime endpoint of its own parameters, with
\* the timeout of its own parameters.
C11_ConnectsToOwnEndpoint ==
    \A i \in Invocations :
        inv[i].conn # "none" =>
            /\ inv[i].addr = inv[i].params.RuntimeEndpoint
            /\ inv[i].timeout = inv[i].params.Timeout

====
